---- MODULE Spec2Model ----
(***************************************************************************)
(* Model of ags/widget/inputCountsState.ts: the per-day input counter      *)
(* store, its loader/normaliser, the debounced save, the day rollover and  *)
(* the line handler that classifies libinput debug-events lines.           *)
(*                                                                         *)
(* Abstractions.  A calendar day key ("%Y-%m-%d") is a day number >= 1,    *)
(* 0 stands for a missing/empty date.  Date.now() is read off the same     *)
(* day-granular clock.  A text line is represented by what the handler's   *)
(* regular expressions can observe of it (the tokens it contains and the   *)
(* numbers they capture); a JSON line by the fields of its payload.        *)
(* A nullable number is a set with at most one element ({} is null/NaN).   *)
(***************************************************************************)
EXTENDS Integers, Sequences, FiniteSets, TLC

VARIABLES state, saveSource, timers, deviceTypes, pressedByEvent, disk,
          today, nEvents, windowIncs, last, armed, pipe

\* state           the InputState record held by createState
\* saveSource      queueSave's timer handle: 0 is null, 1 an armed source id
\* timers          how many save timers GLib holds armed
\* deviceTypes     event id -> device type
\* pressedByEvent  event id -> [left, right] pressed flags
\* disk            the content of STATE_PATH
\* today           the local day the clock shows
\* nEvents         lines delivered so far (bounded by MaxEvents)
\* windowIncs      history: record-changing calls since the pending save timer
\*                 was armed (kept after it fires, until the next one is armed)
\* last            history: the callback that ran last, the line it was given,
\*                 its calls into the store, whether it called saveState and
\*                 whether that write landed
\* armed           the channels of the child (stdout, stderr) on which a
\*                 read_line_async is outstanding
\* pipe            channel -> what the child has written and readNext's
\*                 callback has not read yet, oldest first
vars == <<state, saveSource, timers, deviceTypes, pressedByEvent, disk,
          today, nEvents, windowIncs, last, armed, pipe>>

\* ------------------------------------------------------------------ bounds
\* Number of lines the two streams deliver in a run.
MaxEvents == 3
\* Last calendar day the clock reaches (the run starts on day 2).
MaxDay == 3
\* Lines and stream ends the two pipes together hold unread at most.
MaxPipe == 2

\* ------------------------------------------------------- nullable numbers
Null == {}
Num(n) == {n}
IsNull(x) == x = {}
Val(x) == CHOOSE n \in x : TRUE
\* a ?? b
Coalesce(a, b) == IF IsNull(a) THEN b ELSE a

Abs(n) == IF n < 0 THEN -n ELSE n

\* ------------------------------------------------------------------- maps
EmptyMap == [k \in {} |-> 0]
MapHas(m, k) == k \in DOMAIN m
MapGet(m, k, d) == IF k \in DOMAIN m THEN m[k] ELSE d
MapSet(m, k, v) == [x \in (DOMAIN m) \cup {k} |-> IF x = k THEN v ELSE m[x]]
MapDelete(m, k) == [x \in (DOMAIN m) \ {k} |-> m[x]]

\* ------------------------------------------------------------- InputState
CounterFields == {"left", "right", "keys", "leftMouse", "rightMouse",
                  "leftPad", "rightPad", "scrollUp", "scrollDown",
                  "scrollLeft", "scrollRight"}

\* todayKey(): the local day the clock shows.
todayKey(clock) == clock

defaultState(clock) ==
  [date |-> todayKey(clock), startedAt |-> clock,
   left |-> 0, right |-> 0, keys |-> 0,
   leftMouse |-> 0, rightMouse |-> 0, leftPad |-> 0, rightPad |-> 0,
   scrollUp |-> 0, scrollDown |-> 0, scrollLeft |-> 0, scrollRight |-> 0,
   keyCounts |-> EmptyMap]

\* --------------------------------------------------- persisted JSON values
\* A JSON value as Number() sees it: a number, a numeric string, or anything
\* whose Number() is NaN (text, object, undefined).
RawNum(n) == [t |-> "num", v |-> n]
RawNumStr(n) == [t |-> "numstr", v |-> n]
RawText == [t |-> "text", v |-> 0]
RawAbsent == [t |-> "absent", v |-> 0]

toNumber(raw) == IF raw.t \in {"num", "numstr"} THEN raw.v ELSE 0

normalizeKeyCounts(value) ==
  IF ~value.obj THEN EmptyMap
  ELSE LET keep == {k \in DOMAIN value.entries : toNumber(value.entries[k]) > 0}
       IN [k \in keep |-> toNumber(value.entries[k])]

\* Variant: normalizeState without the date !== todayKey() test.
normalizeStateAnyDate(raw, clock) ==
  LET base == defaultState(clock) IN
  IF raw.date = 0 THEN base
  ELSE [date |-> raw.date,
        startedAt |-> IF raw.startedAt.t = "num" /\ raw.startedAt.v > 0
                      THEN raw.startedAt.v ELSE base.startedAt,
        left |-> toNumber(raw.left), right |-> toNumber(raw.right),
        keys |-> toNumber(raw.keys),
        leftMouse |-> toNumber(raw.leftMouse),
        rightMouse |-> toNumber(raw.rightMouse),
        leftPad |-> toNumber(raw.leftPad), rightPad |-> toNumber(raw.rightPad),
        scrollUp |-> toNumber(raw.scrollUp),
        scrollDown |-> toNumber(raw.scrollDown),
        scrollLeft |-> toNumber(raw.scrollLeft),
        scrollRight |-> toNumber(raw.scrollRight),
        keyCounts |-> normalizeKeyCounts(raw.keyCounts)]

\* raw is the parsed document of an object-valued file (parsed = TRUE in
\* loadState); a document that is null or not an object has date 0.
normalizeState(raw, clock) ==
  LET base == defaultState(clock) IN
  IF raw.date = 0 \/ raw.date # todayKey(clock) THEN base
  ELSE [date |-> raw.date,
        startedAt |-> IF raw.startedAt.t = "num" /\ raw.startedAt.v > 0
                      THEN raw.startedAt.v ELSE base.startedAt,
        left |-> toNumber(raw.left), right |-> toNumber(raw.right),
        keys |-> toNumber(raw.keys),
        leftMouse |-> toNumber(raw.leftMouse),
        rightMouse |-> toNumber(raw.rightMouse),
        leftPad |-> toNumber(raw.leftPad), rightPad |-> toNumber(raw.rightPad),
        scrollUp |-> toNumber(raw.scrollUp),
        scrollDown |-> toNumber(raw.scrollDown),
        scrollLeft |-> toNumber(raw.scrollLeft),
        scrollRight |-> toNumber(raw.scrollRight),
        keyCounts |-> normalizeKeyCounts(raw.keyCounts)]

\* A file is missing, unreadable/unparsable ("garbage"), or holds a document.
MissingFile == [kind |-> "missing"]
GarbageFile == [kind |-> "garbage"]
JsonFile(doc) == [kind |-> "json", doc |-> doc]

loadState(file, clock) ==
  IF file.kind # "json" THEN defaultState(clock)
  ELSE normalizeState(file.doc, clock)

\* JSON.stringify(state): every counter is written as a JSON number.
Stringify(s) ==
  [date |-> s.date, startedAt |-> RawNum(s.startedAt),
   left |-> RawNum(s.left), right |-> RawNum(s.right), keys |-> RawNum(s.keys),
   leftMouse |-> RawNum(s.leftMouse), rightMouse |-> RawNum(s.rightMouse),
   leftPad |-> RawNum(s.leftPad), rightPad |-> RawNum(s.rightPad),
   scrollUp |-> RawNum(s.scrollUp), scrollDown |-> RawNum(s.scrollDown),
   scrollLeft |-> RawNum(s.scrollLeft), scrollRight |-> RawNum(s.scrollRight),
   keyCounts |-> [obj |-> TRUE,
                  entries |-> [k \in DOMAIN s.keyCounts |-> RawNum(s.keyCounts[k])]]]

\* saveState(state): the write either lands or fails and is swallowed.
saveState(file, s, ok) == IF ok THEN JsonFile(Stringify(s)) ELSE file

\* --------------------------------------------------------- the store's ops
\* The handler context threaded through the bump* calls of one callback:
\* the record, the save timer handle, the armed save timers, and the calls
\* made so far (a history of this callback only).
SAVE_DELAY_MS == 2000
DAY_CHECK_MS == 60000

ClickCall(side, source) ==
  [op |-> "click", side |-> side, source |-> source, key |-> "",
   v |-> Null, h |-> Null]
KeyCall(keyName) ==
  [op |-> "key", side |-> "", source |-> "", key |-> keyName,
   v |-> Null, h |-> Null]
ScrollCall(vertical, horizontal) ==
  [op |-> "scroll", side |-> "", source |-> "", key |-> "",
   v |-> vertical, h |-> horizontal]

\* queueSave(): arm the one-shot SAVE_DELAY_MS timer unless one is armed.
\* Variant: queueSave without the saveSource !== null guard.
queueSaveUnguarded(c) ==
  [c EXCEPT !.saveSource = 1, !.timers = @ + 1]
queueSave(c) ==
  IF c.saveSource # 0 THEN c
  ELSE [c EXCEPT !.saveSource = 1, !.timers = @ + 1]

\* Variant: the bumpClick updater adding to leftMouse whatever the source.
bumpClickStateMouseAlways(prev, side, source) ==
  IF side = "left"
  THEN [prev EXCEPT !.left = @ + 1,
                    !.leftMouse = @ + 1,
                    !.leftPad = @ + (IF source = "touchpad" THEN 1 ELSE 0)]
  ELSE [prev EXCEPT !.right = @ + 1,
                    !.rightMouse = @ + (IF source = "mouse" THEN 1 ELSE 0),
                    !.rightPad = @ + (IF source = "touchpad" THEN 1 ELSE 0)]
\* the updater passed to setState in bumpClick
bumpClickState(prev, side, source) ==
  IF side = "left"
  THEN [prev EXCEPT !.left = @ + 1,
                    !.leftMouse = @ + (IF source = "mouse" THEN 1 ELSE 0),
                    !.leftPad = @ + (IF source = "touchpad" THEN 1 ELSE 0)]
  ELSE [prev EXCEPT !.right = @ + 1,
                    !.rightMouse = @ + (IF source = "mouse" THEN 1 ELSE 0),
                    !.rightPad = @ + (IF source = "touchpad" THEN 1 ELSE 0)]

bumpClick(c, side, source) ==
  queueSave([c EXCEPT !.state = bumpClickState(@, side, source),
                      !.calls = Append(@, ClickCall(side, source))])

\* Variant: the per-key count set to 1 on every press.
bumpKeyStateRestart(prev, keyName) ==
  [prev EXCEPT !.keys = @ + 1,
               !.keyCounts = MapSet(@, keyName, 1)]

\* the updater passed to setState in bumpKey
bumpKeyState(prev, keyName) ==
  [prev EXCEPT !.keys = @ + 1,
               !.keyCounts = MapSet(@, keyName, MapGet(@, keyName, 0) + 1)]

\* Variant: bumpKey without its queueSave().
bumpKeyNoSave(c, keyName) ==
  [c EXCEPT !.state = bumpKeyState(@, keyName),
            !.calls = Append(@, KeyCall(keyName))]
bumpKey(c, keyName) ==
  queueSave([c EXCEPT !.state = bumpKeyState(@, keyName),
                      !.calls = Append(@, KeyCall(keyName))])

\* !x for a number|null: null and 0 are falsy (NaN cannot arrive: parseAxis
\* and the callers only pass finite numbers or null).
Falsy(x) == IsNull(x) \/ Val(x) = 0

\* Variant: the bumpScroll updater without Math.abs on a negative vertical.
bumpScrollStateNoAbs(prev, vertical, horizontal) ==
  LET s1 == IF Falsy(vertical) THEN prev
            ELSE IF Val(vertical) > 0
                 THEN [prev EXCEPT !.scrollUp = @ + Val(vertical)]
                 ELSE [prev EXCEPT !.scrollDown = @ + Val(vertical)]
  IN IF Falsy(horizontal) THEN s1
     ELSE IF Val(horizontal) > 0
          THEN [s1 EXCEPT !.scrollRight = @ + Val(horizontal)]
          ELSE [s1 EXCEPT !.scrollLeft = @ + Abs(Val(horizontal))]
\* the updater passed to setState in bumpScroll
bumpScrollState(prev, vertical, horizontal) ==
  LET s1 == IF Falsy(vertical) THEN prev
            ELSE IF Val(vertical) > 0
                 THEN [prev EXCEPT !.scrollUp = @ + Val(vertical)]
                 ELSE [prev EXCEPT !.scrollDown = @ + Abs(Val(vertical))]
  IN IF Falsy(horizontal) THEN s1
     ELSE IF Val(horizontal) > 0
          THEN [s1 EXCEPT !.scrollRight = @ + Val(horizontal)]
          ELSE [s1 EXCEPT !.scrollLeft = @ + Abs(Val(horizontal))]

bumpScroll(c, vertical, horizontal) ==
  IF Falsy(vertical) /\ Falsy(horizontal)
  THEN [c EXCEPT !.calls = Append(@, ScrollCall(vertical, horizontal))]
  ELSE queueSave([c EXCEPT !.state = bumpScrollState(@, vertical, horizontal),
                           !.calls = Append(@, ScrollCall(vertical, horizontal))])

\* ensureToday(): the record after the check, and whether saveState ran.
\* Variant: ensureToday changing only the date.
ensureTodayKeepCounts(prev, clock) ==
  IF prev.date = todayKey(clock) THEN [state |-> prev, saved |-> FALSE]
  ELSE [state |-> [prev EXCEPT !.date = todayKey(clock)], saved |-> TRUE]
ensureToday(prev, clock) ==
  IF prev.date = todayKey(clock) THEN [state |-> prev, saved |-> FALSE]
  ELSE [state |-> [defaultState(clock) EXCEPT !.date = todayKey(clock)],
        saved |-> TRUE]

\* ------------------------------------------------------------------ lines
\* What the callback can observe of a trimmed, non-empty line.
\*   json      text.startsWith("{")
\*   ok, type, pstate, pbutton, pkey   the JSON payload (ok: it parsed)
\*   ev        the digits of a leading event<digits> token, "" if none
\*   toks      the words of the line the patterns look for
\*   button    the number after "button", Null if none
\*   vert, vertical, horiz, horizontal  what parseAxis finds after the token
\*   trail     the number the line ends with, Null if none
\*   keyParen, keyDirect, keyCode  "(KEY_X)", a bare KEY_X, "key <digits>"
TextLine(ev, toks) ==
  [json |-> FALSE, ok |-> FALSE, type |-> "", pstate |-> "",
   pbutton |-> Null, pkey |-> Null, ev |-> ev, toks |-> toks,
   button |-> Null, vert |-> Null, vertical |-> Null, horiz |-> Null,
   horizontal |-> Null, trail |-> Null, keyParen |-> "", keyDirect |-> "",
   keyCode |-> Null]
JsonLine(ok, type, pstate, pbutton, pkey) ==
  [TextLine("", {}) EXCEPT !.json = TRUE, !.ok = ok, !.type = type,
                           !.pstate = pstate, !.pbutton = pbutton,
                           !.pkey = pkey]

\* /pattern/i.test(text)
Has(l, tok) == tok \in l.toks

\* `KEY_${n}`
KeyOfCode(n) == IF n = 30 THEN "KEY_30" ELSE "KEY_N"

\* classifyDevice(text): substring search over the lower-cased line, so the
\* event names TOUCHPAD_TAP and KEYBOARD_KEY count as device words too.
classifyDevice(l) ==
  IF Has(l, "touchpad") \/ Has(l, "TOUCHPAD_TAP") \/ Has(l, "trackpad")
  THEN "touchpad"
  ELSE IF Has(l, "keyboard") \/ Has(l, "KEYBOARD_KEY") THEN "keyboard"
  ELSE IF Has(l, "mouse") \/ Has(l, "trackball") \/ Has(l, "trackpoint")
  THEN "mouse"
  ELSE "unknown"

\* Variant: one device id for every line.
EventIdShared(l) == "unknown"

\* eventMatch ? eventMatch[1] : "unknown"
EventId(l) == IF l.ev = "" THEN "unknown" ELSE l.ev

\* --- JSON branch
\* Variant: the JSON branch without the state === "pressed" test on buttons.
onJsonLineAnyState(c, l) ==
  IF ~l.ok THEN c
  ELSE
    LET c1 == IF l.type = "pointer_button"
              THEN IF l.pbutton = Num(272) THEN bumpClick(c, "left", "mouse")
                   ELSE IF l.pbutton = Num(273)
                        THEN bumpClick(c, "right", "mouse")
                        ELSE c
              ELSE c
    IN IF l.type \in {"key", "keyboard_key"} /\ l.pstate = "pressed"
       THEN bumpKey(c1, IF IsNull(l.pkey) THEN "KEY_UNKNOWN"
                        ELSE KeyOfCode(Val(l.pkey)))
       ELSE c1
onJsonLine(c, l) ==
  IF ~l.ok THEN c
  ELSE
    LET c1 == IF l.type = "pointer_button" /\ l.pstate = "pressed"
              THEN IF l.pbutton = Num(272) THEN bumpClick(c, "left", "mouse")
                   ELSE IF l.pbutton = Num(273)
                        THEN bumpClick(c, "right", "mouse")
                        ELSE c
              ELSE c
    IN IF l.type \in {"key", "keyboard_key"} /\ l.pstate = "pressed"
       THEN bumpKey(c1, IF IsNull(l.pkey) THEN "KEY_UNKNOWN"
                        ELSE KeyOfCode(Val(l.pkey)))
       ELSE c1

\* --- POINTER_SCROLL_
onScroll(c, l) ==
  IF Has(l, "POINTER_SCROLL_")
  THEN bumpScroll(c, Coalesce(l.vert, l.vertical),
                     Coalesce(l.horiz, l.horizontal))
  ELSE c

\* --- POINTER_BUTTON
\* The side a button line is about: BTN_LEFT, else BTN_RIGHT, else the
\* fallback "button <digits>" code; "none" when no side is recognised.
buttonSide(l) ==
  IF Has(l, "BTN_LEFT") THEN "left"
  ELSE IF Has(l, "BTN_RIGHT") THEN "right"
  ELSE IF l.button \in {Num(272), Num(1)} THEN "left"
  ELSE IF l.button \in {Num(273), Num(3)} THEN "right"
  ELSE "none"

\* Variant: a click on every edge, the pressed flag ignored.
emitsClickEveryEdge(isPressed, isReleased, flag) ==
  isPressed \/ isReleased

\* isPressed || (isReleased && !pressed.<side>)
emitsClick(isPressed, isReleased, flag) ==
  isPressed \/ (isReleased /\ ~flag)

\* isPressed ? true : isReleased ? false : pressed.<side>
nextFlag(isPressed, isReleased, flag) ==
  IF isPressed THEN TRUE ELSE IF isReleased THEN FALSE ELSE flag

\* Variant: every button click taken for a mouse click.
buttonSourceMouseOnly(types, id) == "mouse"

\* deviceType === "touchpad" ? "touchpad" : "mouse"
buttonSource(types, id) ==
  IF MapGet(types, id, "unknown") = "touchpad" THEN "touchpad" ELSE "mouse"

onButton(c, l) ==
  IF Has(l, "POINTER_BUTTON") /\ (Has(l, "pressed") \/ Has(l, "released"))
  THEN
    LET id == EventId(l)
        isPressed == Has(l, "pressed")
        isReleased == Has(l, "released")
        source == buttonSource(c.deviceTypes, id)
        pressed == MapGet(c.pressedByEvent, id,
                          [left |-> FALSE, right |-> FALSE])
        side == buttonSide(l)
        c1 == IF side # "none" /\ emitsClick(isPressed, isReleased, pressed[side])
              THEN bumpClick(c, side, source)
              ELSE c
        pressed2 == IF side = "none" THEN pressed
                    ELSE [pressed EXCEPT
                            ![side] = nextFlag(isPressed, isReleased, @)]
    IN [c1 EXCEPT !.pressedByEvent = MapSet(@, id, pressed2)]
  ELSE c

\* --- POINTER_TAP | TOUCHPAD_TAP | GESTURE_TAP
IsTap(l) == Has(l, "POINTER_TAP") \/ Has(l, "TOUCHPAD_TAP") \/ Has(l, "GESTURE_TAP")

\* Variant: the tap branch taking every tap for a right click.
tapSideRight(l) == "right"
tapSide(l) == IF Has(l, "finger 2") \/ Has(l, "finger 3") THEN "right" ELSE "left"

onTap(c, l) ==
  IF IsTap(l) THEN bumpClick(c, tapSide(l), "touchpad") ELSE c

\* --- GESTURE_HOLD_BEGIN
holdSide(l) ==
  LET fingers == IF IsNull(l.trail) THEN 1 ELSE Val(l.trail)
  IN IF fingers >= 2 THEN "right" ELSE "left"

onHold(c, l) ==
  IF Has(l, "GESTURE_HOLD_BEGIN") THEN bumpClick(c, holdSide(l), "touchpad")
  ELSE c

\* --- KEYBOARD_KEY ... pressed
keyName(l) ==
  IF l.keyParen # "" THEN l.keyParen
  ELSE IF l.keyDirect # "" THEN l.keyDirect
  ELSE IF ~IsNull(l.keyCode) THEN KeyOfCode(Val(l.keyCode))
  ELSE "KEY_UNKNOWN"

onKey(c, l) ==
  IF Has(l, "KEYBOARD_KEY") /\ Has(l, "pressed") THEN bumpKey(c, keyName(l))
  ELSE c

\* --- the text branch
\* Variant: the heuristics as an exclusive chain, only the first match firing.
onTextLineFirstMatch(c, l) ==
  LET id == EventId(l) IN
  IF Has(l, "DEVICE_ADDED")
  THEN [c EXCEPT !.deviceTypes = MapSet(@, id, classifyDevice(l))]
  ELSE IF Has(l, "DEVICE_REMOVED")
  THEN [c EXCEPT !.deviceTypes = MapDelete(@, id),
                 !.pressedByEvent = MapDelete(@, id)]
  ELSE IF Has(l, "POINTER_SCROLL_") THEN onScroll(c, l)
  ELSE IF Has(l, "POINTER_BUTTON") THEN onButton(c, l)
  ELSE IF IsTap(l) THEN onTap(c, l)
  ELSE IF Has(l, "GESTURE_HOLD_BEGIN") THEN onHold(c, l)
  ELSE onKey(c, l)
\* Variant: DEVICE_REMOVED forgetting the device's kind but not its flags.
onTextLineKeepEdges(c, l) ==
  LET id == EventId(l) IN
  IF Has(l, "DEVICE_ADDED")
  THEN [c EXCEPT !.deviceTypes = MapSet(@, id, classifyDevice(l))]
  ELSE IF Has(l, "DEVICE_REMOVED")
  THEN [c EXCEPT !.deviceTypes = MapDelete(@, id)]
  ELSE onKey(onHold(onTap(onButton(onScroll(c, l), l), l), l), l)
onTextLine(c, l) ==
  LET id == EventId(l) IN
  IF Has(l, "DEVICE_ADDED")
  THEN [c EXCEPT !.deviceTypes = MapSet(@, id, classifyDevice(l))]
  ELSE IF Has(l, "DEVICE_REMOVED")
  THEN [c EXCEPT !.deviceTypes = MapDelete(@, id),
                 !.pressedByEvent = MapDelete(@, id)]
  ELSE onKey(onHold(onTap(onButton(onScroll(c, l), l), l), l), l)

\* the callback given to spawnInputStream
onLine(c, l) == IF l.json THEN onJsonLine(c, l) ELSE onTextLine(c, l)

\* ------------------------------------------------------- the lines explored
\* Lines that reach the store as each bumpClick(side, source), as bumpKey
\* for two key names and as one bumpScroll.
StoreLines ==
  {JsonLine(TRUE, "pointer_button", "pressed", Num(272), Null),
   JsonLine(TRUE, "pointer_button", "pressed", Num(273), Null),
   TextLine("3", {"POINTER_TAP"}),
   TextLine("3", {"GESTURE_TAP", "finger 2"}),
   [TextLine("3", {"KEYBOARD_KEY", "pressed"}) EXCEPT !.keyDirect = "KEY_A"],
   JsonLine(TRUE, "key", "pressed", Null, Num(30)),
   [TextLine("3", {"POINTER_SCROLL_"}) EXCEPT !.vert = Num(5), !.horiz = Num(-2)]}

\* Lines that reach the store as bumpScroll for each sign of each axis and
\* for null and zero, next to one click and one key press.
ScrollLines ==
  {[TextLine("3", {"POINTER_SCROLL_"}) EXCEPT !.vert = Num(5)],
   [TextLine("3", {"POINTER_SCROLL_"}) EXCEPT !.vert = Num(-3)],
   [TextLine("3", {"POINTER_SCROLL_"}) EXCEPT !.horiz = Num(-2)],
   [TextLine("3", {"POINTER_SCROLL_"}) EXCEPT !.vert = Num(0),
                                             !.vertical = Num(4),
                                             !.horizontal = Num(2)],
   TextLine("3", {"POINTER_SCROLL_"}),
   JsonLine(TRUE, "pointer_button", "pressed", Num(272), Null),
   [TextLine("3", {"KEYBOARD_KEY", "pressed"}) EXCEPT !.keyDirect = "KEY_A"]}

JsonLines ==
  {JsonLine(FALSE, "", "", Null, Null)}
  \cup {JsonLine(TRUE, "pointer_button", "pressed", Num(b), Null) :
          b \in {272, 273, 274}}
  \cup {JsonLine(TRUE, "pointer_button", "released", Num(272), Null),
        JsonLine(TRUE, "pointer_button", "pressed", Null, Null),
        JsonLine(TRUE, "key", "pressed", Null, Num(30)),
        JsonLine(TRUE, "keyboard_key", "pressed", Null, Null),
        JsonLine(TRUE, "key", "released", Null, Num(30))}

\* Device lifecycle, button and tap lines of the text format.
DeviceLines ==
  {TextLine("3", {"DEVICE_ADDED", "touchpad"}),
   TextLine("3", {"DEVICE_REMOVED"}),
   TextLine("3", {"POINTER_BUTTON", "BTN_LEFT", "pressed"}),
   TextLine("3", {"POINTER_BUTTON", "BTN_LEFT", "released"}),
   TextLine("3", {"POINTER_BUTTON", "BTN_RIGHT", "released"}),
   TextLine("5", {"POINTER_BUTTON", "BTN_LEFT", "released"}),
   TextLine("3", {"POINTER_TAP"}),
   TextLine("5", {"TOUCHPAD_TAP"})}

\* Lines on which more than one pattern of the text branch matches, next to
\* the two plain lifecycle lines.
MixedLines ==
  {TextLine("3", {"DEVICE_ADDED", "touchpad"}),
   TextLine("3", {"DEVICE_REMOVED"}),
   [TextLine("3", {"DEVICE_ADDED", "KEYBOARD_KEY", "pressed"})
      EXCEPT !.keyDirect = "KEY_A"],
   TextLine("3", {"DEVICE_ADDED", "DEVICE_REMOVED"}),
   TextLine("3", {"DEVICE_REMOVED", "POINTER_TAP"}),
   [TextLine("3", {"POINTER_SCROLL_", "POINTER_BUTTON", "BTN_LEFT", "pressed",
                   "KEYBOARD_KEY"})
      EXCEPT !.vert = Num(5), !.keyDirect = "KEY_A"],
   TextLine("3", {"POINTER_TAP", "GESTURE_HOLD_BEGIN"}),
   TextLine("3", {"POINTER_BUTTON", "BTN_RIGHT", "released", "GESTURE_TAP",
                  "finger 2"})}

\* Press and release lines of two devices and of lines without an event
\* token, both sides, with and without the BTN_ names.
ButtonLines ==
  {TextLine("3", {"POINTER_BUTTON", "BTN_LEFT", "pressed"}),
   TextLine("3", {"POINTER_BUTTON", "BTN_LEFT", "released"}),
   [TextLine("3", {"POINTER_BUTTON", "pressed"}) EXCEPT !.button = Num(273)],
   TextLine("3", {"POINTER_BUTTON", "BTN_RIGHT", "released"}),
   [TextLine("3", {"POINTER_BUTTON", "pressed"}) EXCEPT !.button = Num(274)],
   TextLine("5", {"POINTER_BUTTON", "BTN_LEFT", "released"}),
   TextLine("", {"POINTER_BUTTON", "BTN_LEFT", "pressed"}),
   TextLine("", {"POINTER_BUTTON", "BTN_LEFT", "released"})}

\* Devices added as each kind, with and without an event token, one removal,
\* and presses on each device id.
SourceLines ==
  {TextLine("3", {"DEVICE_ADDED", "touchpad"}),
   TextLine("3", {"DEVICE_ADDED", "mouse"}),
   TextLine("5", {"DEVICE_ADDED", "keyboard"}),
   TextLine("5", {"DEVICE_ADDED"}),
   TextLine("", {"DEVICE_ADDED", "touchpad"}),
   TextLine("3", {"DEVICE_REMOVED"}),
   TextLine("3", {"POINTER_BUTTON", "BTN_LEFT", "pressed"}),
   TextLine("5", {"POINTER_BUTTON", "BTN_LEFT", "pressed"}),
   TextLine("", {"POINTER_BUTTON", "BTN_LEFT", "pressed"})}

\* What read_line_finish can return for a channel: a line that trims to
\* something, a line that trims to nothing, null at end of stream, or an
\* exception.
LineItem(l) == [kind |-> "line", line |-> l]
BlankItem == [kind |-> "blank", line |-> TextLine("", {})]
EofItem == [kind |-> "eof", line |-> TextLine("", {})]
ErrorItem == [kind |-> "error", line |-> TextLine("", {})]

\* The lines the child writes in the runs that follow the two read loops: a
\* click and a key press.
StreamLines ==
  {JsonLine(TRUE, "pointer_button", "pressed", Num(272), Null),
   [TextLine("3", {"KEYBOARD_KEY", "pressed"}) EXCEPT !.keyDirect = "KEY_A"]}

StreamItems ==
  {LineItem(l) : l \in StreamLines} \cup {BlankItem, EofItem, ErrorItem}

\* ------------------------------------------------------ persisted files
ZeroDoc(date) == Stringify([defaultState(1) EXCEPT !.date = date])

\* A day's record as the program itself would have written it.
UsedDoc(date) ==
  Stringify([defaultState(1) EXCEPT !.date = date, !.left = 2,
               !.leftMouse = 1, !.leftPad = 1, !.right = 1, !.rightPad = 1,
               !.keys = 1, !.keyCounts = MapSet(EmptyMap, "KEY_A", 1),
               !.scrollUp = 5])

RawVals == {RawNum(-1), RawNum(2), RawNumStr(1), RawText, RawAbsent}

RawKeyCounts ==
  {[obj |-> FALSE, entries |-> EmptyMap],
   [obj |-> TRUE, entries |-> MapSet(EmptyMap, "KEY_A", RawNum(0))],
   [obj |-> TRUE, entries |-> MapSet(MapSet(EmptyMap, "KEY_A", RawNum(-1)),
                                     "KEY_B", RawNum(2))],
   [obj |-> TRUE, entries |-> MapSet(MapSet(EmptyMap, "KEY_A", RawText),
                                     "KEY_B", RawNumStr(1))]}

\* Documents: a clean record, or one with a single field edited by hand.
DocsOn(date) ==
  {ZeroDoc(date), UsedDoc(date)}
  \cup {[UsedDoc(date) EXCEPT ![f] = r] :
          f \in CounterFields \cup {"startedAt"}, r \in RawVals}
  \cup {[UsedDoc(date) EXCEPT !.keyCounts = kc] : kc \in RawKeyCounts}

AllFiles(clock) ==
  {MissingFile, GarbageFile}
  \cup {JsonFile(d) : d \in UNION {DocsOn(date) : date \in 0..clock}}

\* The files the long runs start from.
InitFiles(clock) ==
  {MissingFile,
   JsonFile(UsedDoc(clock)),
   JsonFile([UsedDoc(clock) EXCEPT !.leftPad = RawNum(-1)])}

\* ----------------------------------------------------------------- history
NoLine == TextLine("", {})
Did(op, line, calls, saved, ok) ==
  [op |-> op, line |-> line, calls |-> calls, saved |-> saved, ok |-> ok]

\* A call that changes the record (bumpScroll returns early on null/zero).
IsIncrement(call) ==
  ~(call.op = "scroll" /\ Falsy(call.v) /\ Falsy(call.h))
Increments(calls) ==
  Cardinality({i \in 1..Len(calls) : IsIncrement(calls[i])})

\* ----------------------------------------------------------------- actions
\* The two channels of the child a read loop is started on.
Channels == {"stdout", "stderr"}

\* Module initialisation: createState(loadState()), empty registries, no
\* timer armed.
InitWith(files) ==
  /\ today = 2
  /\ disk \in files
  /\ state = loadState(disk, today)
  /\ saveSource = 0
  /\ timers = 0
  /\ deviceTypes = EmptyMap
  /\ pressedByEvent = EmptyMap
  /\ nEvents = 0
  /\ windowIncs = 0
  /\ last = Did("load", NoLine, <<>>, FALSE, FALSE)
  /\ armed = Channels
  /\ pipe = [ch \in Channels |-> <<>>]

Init == InitWith(InitFiles(2))

\* The callback given to spawnInputStream runs on the non-empty line l.
Deliver(l) ==
  /\ nEvents < MaxEvents
  /\ LET c0 == [state |-> state, saveSource |-> saveSource,
                timers |-> timers, calls |-> <<>>,
                deviceTypes |-> deviceTypes,
                pressedByEvent |-> pressedByEvent]
         c1 == onLine(c0, l)
         n == Increments(c1.calls)
     IN /\ state' = c1.state
        /\ saveSource' = c1.saveSource
        /\ timers' = c1.timers
        /\ deviceTypes' = c1.deviceTypes
        /\ pressedByEvent' = c1.pressedByEvent
        /\ windowIncs' = IF saveSource # 0 THEN windowIncs + n
                         ELSE IF c1.saveSource # 0 THEN n ELSE windowIncs
        /\ last' = Did("line", l, c1.calls, FALSE, FALSE)
  /\ nEvents' = nEvents + 1
  /\ UNCHANGED <<disk, today>>

\* The child writes the non-empty line l on a channel whose read is
\* outstanding and whose pipe is empty, and readNext's callback runs on it:
\* onLine(l), then the read is armed again.
OnLine(l) ==
  /\ {ch \in armed : pipe[ch] = <<>>} # {}
  /\ Deliver(l)
  /\ UNCHANGED <<armed, pipe>>

\* Variant: the timer writing the record under the date the file already has.
SaveTimerOldDate ==
  /\ timers > 0
  /\ \E ok \in BOOLEAN :
       /\ disk' = saveState(disk,
                            [state EXCEPT !.date = IF disk.kind = "json"
                                                   THEN disk.doc.date ELSE @],
                            ok)
       /\ last' = Did("save", NoLine, <<>>, TRUE, ok)
  /\ saveSource' = 0
  /\ timers' = timers - 1
  /\ UNCHANGED <<armed, pipe>>
  /\ UNCHANGED <<state, deviceTypes, pressedByEvent, today, nEvents,
                 windowIncs>>

\* Variant: a failed write leaving the pending flag set.
SaveTimerWedged ==
  /\ timers > 0
  /\ \E ok \in BOOLEAN :
       /\ disk' = saveState(disk, state, ok)
       /\ last' = Did("save", NoLine, <<>>, TRUE, ok)
       /\ saveSource' = IF ok THEN 0 ELSE saveSource
  /\ timers' = timers - 1
  /\ UNCHANGED <<armed, pipe>>
  /\ UNCHANGED <<state, deviceTypes, pressedByEvent, today, nEvents,
                 windowIncs>>

\* The SAVE_DELAY_MS timer armed by queueSave fires.
SaveTimer ==
  /\ timers > 0
  /\ \E ok \in BOOLEAN :
       /\ disk' = saveState(disk, state, ok)
       /\ last' = Did("save", NoLine, <<>>, TRUE, ok)
  /\ saveSource' = 0
  /\ timers' = timers - 1
  /\ UNCHANGED <<armed, pipe>>
  /\ UNCHANGED <<state, deviceTypes, pressedByEvent, today, nEvents,
                 windowIncs>>

\* The DAY_CHECK_MS timer fires: ensureToday().
DayCheck ==
  LET r == ensureToday(state, today) IN
  /\ state' = r.state
  /\ \E ok \in (IF r.saved THEN BOOLEAN ELSE {FALSE}) :
       /\ disk' = IF r.saved THEN saveState(disk, r.state, ok) ELSE disk
       /\ last' = Did("daycheck", NoLine, <<>>, r.saved, ok)
  /\ UNCHANGED <<armed, pipe>>
  /\ UNCHANGED <<saveSource, timers, deviceTypes, pressedByEvent, today,
                 nEvents, windowIncs>>

\* Local midnight passes.
AdvanceDay ==
  /\ today < MaxDay
  /\ today' = today + 1
  /\ last' = Did("midnight", NoLine, <<>>, FALSE, FALSE)
  /\ UNCHANGED <<armed, pipe>>
  /\ UNCHANGED <<state, saveSource, timers, deviceTypes, pressedByEvent, disk,
                 nEvents, windowIncs>>

\* The store under every call it can receive, the timers and the clock.
Next ==
  \/ \E l \in StoreLines : OnLine(l)
  \/ SaveTimer
  \/ DayCheck
  \/ AdvanceDay

Spec == Init /\ [][Next]_vars

\* bumpScroll under every kind of argument.
NextScroll ==
  \/ \E l \in ScrollLines : OnLine(l)
  \/ SaveTimer
  \/ DayCheck
  \/ AdvanceDay

SpecScroll == Init /\ [][NextScroll]_vars

\* The JSON branch of the callback.
NextJson ==
  \/ \E l \in JsonLines : OnLine(l)
  \/ SaveTimer
  \/ DayCheck
  \/ AdvanceDay

SpecJson == Init /\ [][NextJson]_vars

\* The device registry and the press-edge table of the text branch.
NextDevices ==
  \/ \E l \in DeviceLines : OnLine(l)
  \/ SaveTimer
  \/ DayCheck
  \/ AdvanceDay

SpecDevices == Init /\ [][NextDevices]_vars

\* Lines matching several patterns of the text branch at once.
NextMixed ==
  \/ \E l \in MixedLines : OnLine(l)
  \/ SaveTimer
  \/ DayCheck
  \/ AdvanceDay

SpecMixed == Init /\ [][NextMixed]_vars

\* The press-edge table under presses and releases of several devices, within
\* one day.
NextButtons ==
  \/ \E l \in ButtonLines : OnLine(l)
  \/ SaveTimer
  \/ DayCheck

SpecButtons == Init /\ [][NextButtons]_vars

\* The device registry under additions of every kind and a removal.
NextSources ==
  \/ \E l \in SourceLines : OnLine(l)
  \/ SaveTimer
  \/ DayCheck
  \/ AdvanceDay

SpecSources == Init /\ [][NextSources]_vars

\* The child writes item on channel ch, or the channel ends or breaks. What
\* is written to a channel nobody reads any more is never seen and is left
\* out.
Write(ch, item) ==
  /\ ch \in armed
  /\ Len(pipe["stdout"]) + Len(pipe["stderr"]) < MaxPipe
  /\ pipe[ch] # <<>> => pipe[ch][Len(pipe[ch])].kind \notin {"eof", "error"}
  /\ pipe' = [pipe EXCEPT ![ch] = Append(@, item)]
  /\ UNCHANGED <<state, saveSource, timers, deviceTypes, pressedByEvent, disk,
                 today, nEvents, windowIncs, last, armed>>

\* Variant: the end of one channel stopping both read loops.
ReadStopsAll(ch) ==
  /\ ch \in armed
  /\ pipe[ch] # <<>>
  /\ pipe' = [pipe EXCEPT ![ch] = Tail(@)]
  /\ LET item == Head(pipe[ch]) IN
     IF item.kind = "line"
     THEN /\ Deliver(item.line)
          /\ armed' = armed
     ELSE /\ last' = Did(item.kind, NoLine, <<>>, FALSE, FALSE)
          /\ armed' = IF item.kind = "blank" THEN armed ELSE {}
          /\ UNCHANGED <<state, saveSource, timers, deviceTypes,
                         pressedByEvent, disk, today, nEvents, windowIncs>>

\* The callback of read_line_async on channel ch: the oldest unread item.
\* null returns, an exception is caught, and in both cases readNext is not
\* called again; an empty text skips onLine; readNext(stream) re-arms.
Read(ch) ==
  /\ ch \in armed
  /\ pipe[ch] # <<>>
  /\ pipe' = [pipe EXCEPT ![ch] = Tail(@)]
  /\ LET item == Head(pipe[ch]) IN
     IF item.kind = "line"
     THEN /\ Deliver(item.line)
          /\ armed' = armed
     ELSE /\ last' = Did(item.kind, NoLine, <<>>, FALSE, FALSE)
          /\ armed' = IF item.kind = "blank" THEN armed ELSE armed \ {ch}
          /\ UNCHANGED <<state, saveSource, timers, deviceTypes,
                         pressedByEvent, disk, today, nEvents, windowIncs>>

\* The two read loops next to the timers.
NextStreams ==
  \/ \E ch \in Channels, item \in StreamItems : Write(ch, item)
  \/ \E ch \in Channels : Read(ch)
  \/ SaveTimer
  \/ DayCheck

\* The runs of the read loops start without a file and stay within one day.
InitStreams == InitWith({MissingFile})

SpecStreams == InitStreams /\ [][NextStreams]_vars

\* Construction as a step of its own: the file and the clock are arbitrary,
\* then createState(loadState()) runs.
InitBoot ==
  /\ today = 2
  /\ disk \in AllFiles(MaxDay)
  /\ state = defaultState(0)
  /\ saveSource = 0
  /\ timers = 0
  /\ deviceTypes = EmptyMap
  /\ pressedByEvent = EmptyMap
  /\ nEvents = 0
  /\ windowIncs = 0
  /\ last = Did("start", NoLine, <<>>, FALSE, FALSE)
  /\ armed = Channels
  /\ pipe = [ch \in Channels |-> <<>>]

Load ==
  /\ last.op = "start"
  /\ state' = loadState(disk, today)
  /\ last' = Did("load", NoLine, <<>>, FALSE, FALSE)
  /\ UNCHANGED <<armed, pipe>>
  /\ UNCHANGED <<saveSource, timers, deviceTypes, pressedByEvent, disk, today,
                 nEvents, windowIncs>>

NextLoad ==
  \/ Load
  \/ AdvanceDay

SpecLoad == InitBoot /\ [][NextLoad]_vars

\* ================================================================= claims
IsZeroRecord(s, day) ==
  /\ s.date = day
  /\ \A f \in CounterFields : s[f] = 0
  /\ s.keyCounts = EmptyMap

SumsOk(s) ==
  /\ s.left = s.leftMouse + s.leftPad
  /\ s.right = s.rightMouse + s.rightPad

\* The step handled one line whose only call into the store was `call`.
OneCall(call) == last'.op = "line" /\ last'.calls = <<call>>

\* C1: left = leftMouse + leftPad and right = rightMouse + rightPad are
\* preserved by every step (clicks, key presses, scrolls, saves, rollover),
\* and a bumpClick(side, source) adds exactly 1 to the side total and to the
\* sub-counter of that source, and nothing to any other field.
C1_ClickTotals ==
  [][ /\ SumsOk(state) => SumsOk(state')
      /\ \A side \in {"left", "right"}, source \in {"mouse", "touchpad"} :
           OneCall(ClickCall(side, source)) =>
             state' = [state EXCEPT
                         ![side] = @ + 1,
                         ![IF side = "left"
                           THEN (IF source = "mouse" THEN "leftMouse" ELSE "leftPad")
                           ELSE (IF source = "mouse" THEN "rightMouse"
                                 ELSE "rightPad")] = @ + 1] ]_vars

\* C1 witness: a touchpad click just counted on a record that started
\* zeroed and already held a mouse click and a key press.
C1_Witness ==
  /\ last.op = "line" /\ last.calls = <<ClickCall("left", "touchpad")>>
  /\ SumsOk(state)
  /\ state.left = 2 /\ state.leftMouse = 1 /\ state.leftPad = 1
  /\ state.right = 0 /\ state.keys = 1 /\ state.scrollUp = 0

\* C3: at most one save timer is armed and saveSource tells whether one is;
\* a line never writes, and while a save is pending it arms nothing; the
\* first increment with no save pending arms exactly one timer; when the
\* timer fires exactly one write happens, of the record as it is then, and
\* the pending flag is clear.
C3_DebouncedSave ==
  /\ [](timers <= 1 /\ (saveSource = 0 <=> timers = 0))
  /\ [][ /\ last'.op = "line" =>
              /\ ~last'.saved /\ disk' = disk
              /\ saveSource # 0 => (timers' = timers /\ saveSource' = saveSource)
              /\ (saveSource = 0 /\ Increments(last'.calls) >= 1) =>
                   (timers' = 1 /\ saveSource' # 0)
         /\ last'.op = "save" =>
              /\ last'.saved /\ state' = state
              /\ timers' = 0 /\ saveSource' = 0
              /\ disk' = IF last'.ok THEN JsonFile(Stringify(state)) ELSE disk
       ]_vars

\* C3 witness: the timer fired after a window holding two or more
\* increments and wrote the record that reflects them.
C3_Witness ==
  /\ last.op = "save" /\ last.ok
  /\ windowIncs >= 2
  /\ saveSource = 0 /\ timers = 0
  /\ disk = JsonFile(Stringify(state))
  /\ state.left + state.right + state.keys >= 2

\* C4: a day check on a record of another day replaces it by the zeroed
\* record of today and calls saveState with it in the same step (the file
\* then holds it unless the write failed), whether or not a save is pending;
\* a day check on today's record changes nothing and writes nothing.
C4_DayRollover ==
  [][ last'.op = "daycheck" =>
        IF state.date # today
        THEN /\ IsZeroRecord(state', today)
             /\ last'.saved
             /\ disk' = IF last'.ok THEN JsonFile(Stringify(state')) ELSE disk
             /\ saveSource' = saveSource /\ timers' = timers
        ELSE /\ state' = state /\ disk' = disk /\ ~last'.saved
             /\ saveSource' = saveSource /\ timers' = timers ]_vars

\* C4 witness: a rollover happened while a debounced save was pending and
\* its write landed.
C4_Witness ==
  /\ last.op = "daycheck" /\ last.saved /\ last.ok
  /\ saveSource # 0
  /\ IsZeroRecord(state, today)
  /\ disk = JsonFile(Stringify(state))

\* A text line on which only the POINTER_BUTTON pattern matches, naming one
\* side and "released" but not "pressed".
IsReleaseLine(l, side) ==
  /\ ~l.json
  /\ l.toks = {"POINTER_BUTTON", "released",
               IF side = "left" THEN "BTN_LEFT" ELSE "BTN_RIGHT"}

Clicks(calls, side) ==
  Cardinality({i \in 1..Len(calls) :
                 calls[i].op = "click" /\ calls[i].side = side})

\* C2: a released line for a device with no recorded press of that side
\* counts exactly one click of that side, and a released line that directly
\* follows a released line of the same device and side counts none.
C2_OrphanRelease ==
  [][ \A side \in {"left", "right"} :
        (last'.op = "line" /\ IsReleaseLine(last'.line, side)) =>
          LET id == EventId(last'.line) IN
          /\ ~MapHas(pressedByEvent, id) => Clicks(last'.calls, side) = 1
          /\ (/\ last.op = "line" /\ IsReleaseLine(last.line, side)
              /\ EventId(last.line) = id)
             => Clicks(last'.calls, side) = 0 ]_vars

StaleOrBad(file, clock) ==
  \/ file.kind # "json"
  \/ file.doc.date = 0
  \/ file.doc.date # clock

\* C5: right after loading, if the file is missing or unparsable, or its
\* record has no date or a date other than today, the record is the default
\* one: dated today, every counter 0, keyCounts empty.
C5_LoadStale ==
  (last.op = "load" /\ StaleOrBad(disk, today)) => IsZeroRecord(state, today)

\* C5 witness: a record of another day holding counts was loaded as zeros.
C5_Witness ==
  /\ last.op = "load"
  /\ disk.kind = "json" /\ disk.doc.date \notin {0, today}
  /\ disk.doc.left = RawNum(2) /\ disk.doc.keyCounts.entries # EmptyMap
  /\ IsZeroRecord(state, today)

\* C6: every counter of the record is non-negative and every keyCounts
\* entry is strictly positive, in every state.
C6_NonNegative ==
  /\ \A f \in CounterFields : state[f] >= 0
  /\ \A k \in DOMAIN state.keyCounts : state.keyCounts[k] > 0

IsJsonButton(l) == l.json /\ l.ok /\ l.type = "pointer_button"

\* C7: a JSON pointer_button line with state pressed adds 1 to left and
\* leftMouse for button 272, 1 to right and rightMouse for button 273, and
\* changes no other field of the record, nor the device registry, nor the
\* press-edge table; with any other button or state it changes nothing.
C7_JsonButton ==
  [][ (last'.op = "line" /\ IsJsonButton(last'.line)) =>
        /\ deviceTypes' = deviceTypes
        /\ pressedByEvent' = pressedByEvent
        /\ state' =
             IF last'.line.pstate = "pressed" /\ last'.line.pbutton = Num(272)
             THEN [state EXCEPT !.left = @ + 1, !.leftMouse = @ + 1]
             ELSE IF last'.line.pstate = "pressed"
                     /\ last'.line.pbutton = Num(273)
             THEN [state EXCEPT !.right = @ + 1, !.rightMouse = @ + 1]
             ELSE state ]_vars

\* C7 witness: the JSON line for button 272 was just counted as a mouse
\* left click.
C7_Witness ==
  /\ last.op = "line" /\ IsJsonButton(last.line)
  /\ last.line.pstate = "pressed" /\ last.line.pbutton = Num(272)
  /\ last.calls = <<ClickCall("left", "mouse")>>
  /\ state.left = 1 /\ state.leftMouse = 1 /\ state.leftPad = 0

Pos(x) == IF IsNull(x) THEN 0 ELSE IF Val(x) > 0 THEN Val(x) ELSE 0
Neg(x) == IF IsNull(x) THEN 0 ELSE IF Val(x) < 0 THEN 0 - Val(x) ELSE 0

\* C8: bumpScroll(v, h) adds the positive part of v to scrollUp, the
\* magnitude of a negative v to scrollDown, the positive part of h to
\* scrollRight and the magnitude of a negative h to scrollLeft; null and
\* zero add nothing, and no other field of the record changes.
C8_ScrollSums ==
  [][ \A v \in {Null, Num(0), Num(5), Num(-3)}, h \in {Null, Num(0), Num(2), Num(-2)} :
        OneCall(ScrollCall(v, h)) =>
          state' = [state EXCEPT !.scrollUp = @ + Pos(v),
                                 !.scrollDown = @ + Neg(v),
                                 !.scrollRight = @ + Pos(h),
                                 !.scrollLeft = @ + Neg(h)] ]_vars

\* C8 witness: from the zeroed record, bumpScroll(5, null) and then
\* bumpScroll(-3, null) gave scrollUp = 5, scrollDown = 3 and no horizontal
\* scroll.
C8_Witness ==
  /\ last.op = "line" /\ last.calls = <<ScrollCall(Num(-3), Null)>>
  /\ state.scrollUp = 5 /\ state.scrollDown = 3
  /\ state.scrollLeft = 0 /\ state.scrollRight = 0
  /\ state.left = 0 /\ state.keys = 0

\* A text line on which only the tap pattern matches, without a finger 2 or
\* finger 3 marker.
IsPlainTap(l) ==
  /\ ~l.json
  /\ l.toks \in {{"POINTER_TAP"}, {"TOUCHPAD_TAP"}, {"GESTURE_TAP"}}

\* C9: a tap line without finger marker, on a device the registry holds as
\* touchpad, adds 1 to left and to leftPad and changes nothing else of the
\* record.
C9_TouchpadTap ==
  [][ (/\ last'.op = "line" /\ IsPlainTap(last'.line)
       /\ MapGet(deviceTypes, EventId(last'.line), "unknown") = "touchpad")
      => /\ last'.calls = <<ClickCall("left", "touchpad")>>
         /\ state' = [state EXCEPT !.left = @ + 1, !.leftPad = @ + 1] ]_vars

\* C9 witness: after DEVICE_ADDED registered device 3 as a touchpad, a
\* POINTER_TAP line of device 3 was counted as one touchpad left click.
C9_Witness ==
  /\ last.op = "line" /\ IsPlainTap(last.line) /\ EventId(last.line) = "3"
  /\ MapGet(deviceTypes, "3", "unknown") = "touchpad"
  /\ last.calls = <<ClickCall("left", "touchpad")>>
  /\ state.left = 1 /\ state.leftPad = 1 /\ state.leftMouse = 0

\* C10 as stated: after a line that called bumpClick, bumpKey or bumpScroll
\* (with any arguments) a save is pending, and the line wrote nothing.
C10_AlwaysSchedules ==
  [][ (last'.op = "line" /\ Len(last'.calls) >= 1) =>
        /\ saveSource' # 0 /\ timers' >= 1
        /\ ~last'.saved /\ disk' = disk ]_vars

\* C10 amended: after a line whose calls changed the record a save is
\* pending and the line wrote nothing; a bumpScroll whose arguments are both
\* null or zero changes nothing and schedules nothing.
C10_SchedulesOnChange ==
  [][ /\ (last'.op = "line" /\ Increments(last'.calls) >= 1) =>
           /\ saveSource' # 0 /\ timers' >= 1
           /\ ~last'.saved /\ disk' = disk
      /\ (last'.op = "line" /\ Len(last'.calls) >= 1
            /\ Increments(last'.calls) = 0) =>
           /\ state' = state /\ disk' = disk /\ ~last'.saved
           /\ saveSource' = saveSource /\ timers' = timers ]_vars

\* C10 witness: a key press just armed the save timer that was not armed
\* before it (no save had been pending since the last write).
C10_Witness ==
  /\ last.op = "line" /\ last.calls = <<KeyCall("KEY_A")>>
  /\ windowIncs = 1
  /\ saveSource # 0 /\ timers = 1

\* C11: whenever a line makes the store apply an increment, the record being
\* incremented carries the current local day: no event that arrives after
\* midnight, the DAY_CHECK_MS check still to come, is added to the previous
\* day's record.
C11_NeverMergeOldDay ==
  [][ (last'.op = "line" /\ Increments(last'.calls) >= 1) =>
        (state.date = today /\ state'.date = today') ]_vars

\* What the event patterns of the text branch, each taken alone and in the
\* order of the source, would hand to the store for line l.
ScrollCalls(l) ==
  IF Has(l, "POINTER_SCROLL_")
  THEN <<ScrollCall(Coalesce(l.vert, l.vertical),
                    Coalesce(l.horiz, l.horizontal))>>
  ELSE <<>>
ButtonCalls(l, types, table) ==
  LET id == EventId(l)
      flags == MapGet(table, id, [left |-> FALSE, right |-> FALSE])
  IN IF /\ Has(l, "POINTER_BUTTON")
        /\ Has(l, "pressed") \/ Has(l, "released")
        /\ buttonSide(l) # "none"
        /\ Has(l, "pressed") \/ ~flags[buttonSide(l)]
     THEN <<ClickCall(buttonSide(l),
                      IF MapHas(types, id) /\ MapGet(types, id, "") = "touchpad"
                      THEN "touchpad" ELSE "mouse")>>
     ELSE <<>>
TapCalls(l) ==
  IF IsTap(l)
  THEN <<ClickCall(IF Has(l, "finger 2") \/ Has(l, "finger 3")
                   THEN "right" ELSE "left", "touchpad")>>
  ELSE <<>>
HoldCalls(l) ==
  IF Has(l, "GESTURE_HOLD_BEGIN")
  THEN <<ClickCall(IF ~IsNull(l.trail) /\ Val(l.trail) >= 2
                   THEN "right" ELSE "left", "touchpad")>>
  ELSE <<>>
KeyCalls(l) ==
  IF Has(l, "KEYBOARD_KEY") /\ Has(l, "pressed")
  THEN <<KeyCall(keyName(l))>>
  ELSE <<>>
EventCalls(l, types, table) ==
  ScrollCalls(l) \o ButtonCalls(l, types, table) \o TapCalls(l)
    \o HoldCalls(l) \o KeyCalls(l)

\* C12 as stated: on a text line every matching pattern fires whatever else
\* matches: a DEVICE_ADDED line registers its device, and the line reaches
\* the store once for each event pattern it matches.
C12_EveryHeuristicFires ==
  [][ (last'.op = "line" /\ ~last'.line.json) =>
        LET l == last'.line IN
        /\ Has(l, "DEVICE_ADDED") =>
             MapHas(deviceTypes', EventId(l))
        /\ last'.calls = EventCalls(l, deviceTypes, pressedByEvent) ]_vars

\* C12, amended: DEVICE_ADDED and DEVICE_REMOVED are exclusive. A line
\* matching DEVICE_ADDED only registers its device; otherwise a line matching
\* DEVICE_REMOVED only unregisters it; neither reaches the store. On every
\* other text line each matching event pattern fires, in the order scroll,
\* button, tap, hold, key.
C12_LifecycleExclusive ==
  [][ (last'.op = "line" /\ ~last'.line.json) =>
        LET l == last'.line
            id == EventId(l)
        IN IF Has(l, "DEVICE_ADDED")
           THEN /\ last'.calls = <<>>
                /\ deviceTypes' = MapSet(deviceTypes, id, classifyDevice(l))
                /\ UNCHANGED <<state, saveSource, pressedByEvent>>
           ELSE IF Has(l, "DEVICE_REMOVED")
           THEN /\ last'.calls = <<>>
                /\ deviceTypes' = MapDelete(deviceTypes, id)
                /\ pressedByEvent' = MapDelete(pressedByEvent, id)
                /\ UNCHANGED <<state, saveSource>>
           ELSE /\ last'.calls = EventCalls(l, deviceTypes, pressedByEvent)
                /\ UNCHANGED deviceTypes ]_vars

\* One line fired the scroll, the button and the key pattern.
C12_Witness ==
  /\ last.op = "line"
  /\ Has(last.line, "POINTER_SCROLL_") /\ Has(last.line, "POINTER_BUTTON")
  /\ Has(last.line, "KEYBOARD_KEY")
  /\ last.calls = <<ScrollCall(Num(5), Null), ClickCall("left", "touchpad"),
                    KeyCall("KEY_A")>>

\* The pressed flag of (id, side); a device without an entry has none set.
Flag(table, id, side) ==
  MapGet(table, id, [left |-> FALSE, right |-> FALSE])[side]

\* A text line matching only the POINTER_BUTTON pattern, with exactly one of
\* "pressed" and "released".
IsButtonLine(l, word) ==
  /\ ~l.json
  /\ Has(l, "POINTER_BUTTON") /\ Has(l, word)
  /\ l.toks \subseteq {"POINTER_BUTTON", "BTN_LEFT", "BTN_RIGHT", word}

\* C13: a pressed line for a recognised side reaches the store as exactly one
\* click of that side and leaves the device's flag of that side true; a
\* released line met with the flag true reaches the store not at all; every
\* released line leaves the flag false.
C13_EdgeDetection ==
  [][ last'.op = "line" =>
        LET l == last'.line
            id == EventId(l)
            side == buttonSide(l)
        IN /\ (IsButtonLine(l, "pressed") /\ side # "none") =>
                /\ Len(last'.calls) = 1
                /\ Clicks(last'.calls, side) = 1
                /\ Flag(pressedByEvent', id, side)
           /\ (IsButtonLine(l, "released") /\ side # "none") =>
                /\ Flag(pressedByEvent, id, side) => last'.calls = <<>>
                /\ ~Flag(pressedByEvent', id, side) ]_vars

\* From the zeroed record: a press of event3's left button and then its
\* release, one left click in all.
C13_Witness ==
  /\ last.op = "line"
  /\ IsButtonLine(last.line, "released") /\ buttonSide(last.line) = "left"
  /\ last.line.ev = "3"
  /\ last.calls = <<>>
  /\ nEvents = 2
  /\ state.left = 1 /\ state.right = 0
  /\ ~Flag(pressedByEvent, "3", "left")

\* C14 as stated: a press line counts as a touchpad click exactly when the
\* line has an event token and the registry maps that id to touchpad; a line
\* without an event token counts as a mouse click.
C14_TokenlessIsMouse ==
  [][ (last'.op = "line" /\ IsButtonLine(last'.line, "pressed")) =>
        LET l == last'.line
            pad == /\ l.ev # ""
                   /\ MapHas(deviceTypes, l.ev)
                   /\ MapGet(deviceTypes, l.ev, "") = "touchpad"
        IN last'.calls = <<ClickCall(buttonSide(l),
                                     IF pad THEN "touchpad" ELSE "mouse")>> ]_vars

\* C14, amended: a line without an event token has the device id "unknown".
\* A press line counts as a touchpad click exactly when the registry maps the
\* line's id (its event digits, or "unknown") to touchpad at that moment, and
\* as a mouse click in every other case.
C14_SourceFromRegistry ==
  [][ (last'.op = "line" /\ IsButtonLine(last'.line, "pressed")) =>
        LET l == last'.line
            id == IF l.ev = "" THEN "unknown" ELSE l.ev
            pad == /\ MapHas(deviceTypes, id)
                   /\ MapGet(deviceTypes, id, "") = "touchpad"
        IN last'.calls = <<ClickCall(buttonSide(l),
                                     IF pad THEN "touchpad" ELSE "mouse")>> ]_vars

\* event3 was added as a touchpad and removed again, and its press then
\* counted as a mouse click.
C14_Witness ==
  /\ last.op = "line" /\ IsButtonLine(last.line, "pressed")
  /\ last.line.ev = "3"
  /\ last.calls = <<ClickCall("left", "mouse")>>
  /\ nEvents = 3
  /\ ~MapHas(deviceTypes, "3")
  /\ state.leftMouse = 1 /\ state.leftPad = 0 /\ state.left = 1

\* m2 is m without the entry of d, every other entry as it was.
OnlyEntryGone(m, m2, d) ==
  /\ d \notin DOMAIN m2
  /\ DOMAIN m2 = (DOMAIN m) \ {d}
  /\ \A k \in DOMAIN m2 : m2[k] = m[k]

\* C15: a DEVICE_REMOVED line for device d leaves neither the registry nor
\* the press-edge table with an entry for d, leaves the entries of every other
\* device as they were, and leaves the record, the pending flag and the
\* debounce timer untouched.
C15_DeviceRemoved ==
  [][ (/\ last'.op = "line" /\ ~last'.line.json
       /\ Has(last'.line, "DEVICE_REMOVED")
       /\ ~Has(last'.line, "DEVICE_ADDED")) =>
        LET d == EventId(last'.line) IN
        /\ OnlyEntryGone(deviceTypes, deviceTypes', d)
        /\ OnlyEntryGone(pressedByEvent, pressedByEvent', d)
        /\ last'.calls = <<>>
        /\ UNCHANGED <<state, saveSource, timers, disk>> ]_vars

\* From the zeroed record: event3 was added as a touchpad, pressed (a save
\* is pending) and has just been removed; both tables are empty again.
C15_Witness ==
  /\ last.op = "line" /\ Has(last.line, "DEVICE_REMOVED")
  /\ last.line.ev = "3"
  /\ nEvents = 3
  /\ state.leftPad = 1 /\ state.left = 1 /\ state.right = 0
  /\ DOMAIN deviceTypes = {} /\ DOMAIN pressedByEvent = {}
  /\ saveSource # 0 /\ timers = 1

\* The device ids and sides the press-edge table can hold.
EdgeKeys == {"3", "5", "unknown"} \X {"left", "right"}

\* C16: a button line of device A and side s changes no pressed flag but that
\* of (A, s), where A is "unknown" for a line without an event token; so a
\* release on B straight after a press on A, B not pressed before, is a
\* second click.
C16_EdgeIsolation ==
  [][ (/\ last'.op = "line"
       /\ IsButtonLine(last'.line, "pressed")
          \/ IsButtonLine(last'.line, "released")) =>
        LET l == last'.line
            A == IF l.ev = "" THEN "unknown" ELSE l.ev
            s == buttonSide(l)
        IN /\ \A k \in EdgeKeys \ {<<A, s>>} :
                Flag(pressedByEvent', k[1], k[2])
                  = Flag(pressedByEvent, k[1], k[2])
           /\ s # "none" =>
                Flag(pressedByEvent', A, s) = IsButtonLine(l, "pressed")
           /\ (/\ last.op = "line" /\ IsButtonLine(last.line, "pressed")
               /\ IsButtonLine(l, "released")
               /\ buttonSide(last.line) = s /\ s # "none"
               /\ EventId(last.line) # A
               /\ ~Flag(pressedByEvent, A, s)) =>
                Len(last.calls) + Len(last'.calls) = 2 ]_vars

\* From the zeroed record: a press on event3, then a release on event5, two
\* left clicks, event3's flag still set.
C16_Witness ==
  /\ last.op = "line" /\ IsButtonLine(last.line, "released")
  /\ last.line.ev = "5"
  /\ last.calls = <<ClickCall("left", "mouse")>>
  /\ nEvents = 2
  /\ state.left = 2 /\ state.leftMouse = 2 /\ state.right = 0
  /\ Flag(pressedByEvent, "3", "left")
  /\ ~Flag(pressedByEvent, "5", "left")

\* C17: a rollover replaces the record by the zeroed record of the new day
\* and leaves a pending debounce timer armed; the record's date never goes
\* back; every write that lands, the pending timer's included, puts the
\* record of that moment in the file. So the date in the file never goes
\* back either: after the rollover's write no write carries the old day.
C17_RolloverPendingSave ==
  [][ /\ (last'.op = "daycheck" /\ last'.saved) =>
           /\ IsZeroRecord(state', today)
           /\ state.date # today
           /\ UNCHANGED <<saveSource, timers>>
      /\ state'.date >= state.date
      /\ state'.date # state.date => last'.op = "daycheck"
      /\ (last'.saved /\ last'.ok) => disk' = JsonFile(Stringify(state'))
      /\ (last'.op = "save" /\ last'.ok) =>
           /\ disk' = JsonFile(Stringify(state))
           /\ disk'.doc.date = state.date
      /\ (disk.kind = "json" /\ disk'.kind = "json") =>
           disk'.doc.date >= disk.doc.date ]_vars

\* An event on day 2 armed the timer; the rollover to day 3 happened with the
\* timer pending; a click came on day 3; the timer has just written a
\* day-3 record holding that one click.
C17_Witness ==
  /\ last.op = "save" /\ last.ok
  /\ state.date = 3 /\ today = 3
  /\ state.left = 1 /\ state.leftMouse + state.leftPad = 1
  /\ \A f \in CounterFields \ {"left", "leftMouse", "leftPad"} : state[f] = 0
  /\ windowIncs = 2
  /\ disk = JsonFile(Stringify(state))

\* C18 as stated: after a failed write, the debounce timer's or the
\* rollover's, the file and the record are what a successful call would have
\* left but for the file, and no save is pending.
C18_FailureClearsPending ==
  [][ (last'.saved /\ ~last'.ok) =>
        /\ disk' = disk
        /\ last'.op = "save" => state' = state
        /\ last'.op = "daycheck" => IsZeroRecord(state', today)
        /\ saveSource' = 0 ]_vars

\* C18, amended: a failed write changes neither the file nor the record (a
\* failed rollover write still leaves the zeroed record of the new day in
\* memory). A failed debounced save leaves no save pending; a failed rollover
\* write leaves the pending flag and the timer as they were. Every later
\* increment changes the record and leaves a save pending, and every write
\* that lands holds the whole record of that moment.
C18_FailureRecovered ==
  [][ /\ (last'.saved /\ ~last'.ok) =>
           /\ disk' = disk
           /\ last'.op = "save" =>
                /\ state' = state
                /\ saveSource' = 0 /\ timers' = timers - 1
           /\ last'.op = "daycheck" =>
                /\ IsZeroRecord(state', today)
                /\ UNCHANGED <<saveSource, timers>>
      /\ (last'.op = "line" /\ Increments(last'.calls) >= 1) =>
           /\ state' # state
           /\ saveSource' # 0 /\ timers' = 1
      /\ (last'.saved /\ last'.ok) => disk' = JsonFile(Stringify(state')) ]_vars

\* No file at start; the first line's save failed (its window has closed and
\* there is still no file); the second line has counted and armed a new save.
C18_Witness ==
  /\ last.op = "line" /\ Increments(last.calls) = 1
  /\ disk = MissingFile
  /\ today = 2 /\ state.date = 2
  /\ nEvents = 2 /\ windowIncs = 1
  /\ saveSource # 0 /\ timers = 1

\* C19: a callback takes the oldest unread item of its own channel and only
\* that; a non-empty line goes to the classifier once (one more line handled,
\* one more event counted) and the read is armed again; an empty line is
\* skipped and the read armed again; on end of stream or a read failure the
\* channel's read is not armed again, and never will be, while the other
\* channel's read stays as it was. Nothing reaches the classifier but through
\* such a callback, and the timers take nothing from the channels.
C19_ChannelLoops ==
  [][ /\ armed' \subseteq armed
      /\ \A ch \in Channels :
           Len(pipe'[ch]) < Len(pipe[ch]) =>
             LET item == Head(pipe[ch])
                 other == CHOOSE o \in Channels : o # ch
             IN /\ ch \in armed
                /\ pipe'[ch] = Tail(pipe[ch])
                /\ pipe'[other] = pipe[other]
                /\ (other \in armed') = (other \in armed)
                /\ item.kind = "line" =>
                     /\ ch \in armed'
                     /\ last'.op = "line" /\ last'.line = item.line
                     /\ Increments(last'.calls) = 1
                     /\ nEvents' = nEvents + 1
                     /\ state'.left + state'.keys = state.left + state.keys + 1
                /\ item.kind = "blank" =>
                     /\ ch \in armed'
                     /\ UNCHANGED <<state, saveSource, timers, nEvents>>
                /\ item.kind \in {"eof", "error"} =>
                     /\ ch \notin armed'
                     /\ UNCHANGED <<state, saveSource, timers, nEvents>>
      /\ (nEvents' # nEvents \/ state' # state) =>
           \E ch \in Channels : Len(pipe'[ch]) < Len(pipe[ch])
      /\ (timers' < timers \/ disk' # disk) =>
           UNCHANGED <<pipe, armed, state, nEvents>> ]_vars

\* stdout has ended; after that a line of stderr was handled, the second one
\* handled in the run, and a further item of stderr waits unread.
C19_Witness ==
  /\ armed = {"stderr"}
  /\ last.op = "line"
  /\ nEvents = 2
  /\ state.left + state.keys = 2
  /\ pipe["stderr"] # <<>>

RECURSIVE SumOfCounts(_)
SumOfCounts(m) ==
  IF DOMAIN m = {} THEN 0
  ELSE LET k == CHOOSE x \in DOMAIN m : TRUE
       IN m[k] + SumOfCounts([x \in (DOMAIN m) \ {k} |-> m[x]])

KeysOk(s) == s.keys = SumOfCounts(s.keyCounts)

KeyNames == {"KEY_A", "KEY_30", "KEY_N", "KEY_UNKNOWN"}

\* C20: keys is the sum of the values of keyCounts in every state, and every
\* step keeps it so; a bumpKey(k) adds 1 to keys and to keyCounts[k], an
\* absent entry counting as 0, and changes no other entry and no other field.
C20_KeyCounts ==
  /\ [] KeysOk(state)
  /\ [][ /\ KeysOk(state) => KeysOk(state')
         /\ \A k \in KeyNames :
              OneCall(KeyCall(k)) =>
                /\ state'.keys = state.keys + 1
                /\ k \in DOMAIN state'.keyCounts
                /\ state'.keyCounts[k]
                     = (IF k \in DOMAIN state.keyCounts
                        THEN state.keyCounts[k] ELSE 0) + 1
                /\ DOMAIN state'.keyCounts = DOMAIN state.keyCounts \cup {k}
                /\ \A j \in DOMAIN state.keyCounts \ {k} :
                     state'.keyCounts[j] = state.keyCounts[j]
                /\ \A f \in (DOMAIN state) \ {"keys", "keyCounts"} :
                     state'[f] = state[f] ]_vars

\* From the zeroed record: KEY_A, KEY_30 and KEY_A again.
C20_Witness ==
  /\ last.op = "line" /\ last.calls = <<KeyCall("KEY_A")>>
  /\ nEvents = 3
  /\ state.keys = 3
  /\ DOMAIN state.keyCounts = {"KEY_A", "KEY_30"}
  /\ state.keyCounts["KEY_A"] = 2 /\ state.keyCounts["KEY_30"] = 1

====
